---- MODULE Spec2Model ----
(***************************************************************************)
(* llm-cost (bin/llm-cost.mjs): the pricing-resolution pipeline.           *)
(*                                                                         *)
(* One invocation of the CLI is a process p: main() parses its arguments,  *)
(* calls getModels(args.refresh) and then renders one of its modes.        *)
(* getModels reads the cache file, fetches live pricing, writes the cache  *)
(* and degrades to a stale cache or to FALLBACK_MODELS.  The cache file    *)
(* and the wall clock are shared by all invocations.                       *)
(*                                                                         *)
(* Units.  A raw per-token price is a decimal string; it is modelled by    *)
(* the integer number of 10^-12 USD it denotes.  A per-million price is    *)
(* modelled by the integer number of 10^-4 USD (the 4 decimal places the   *)
(* code keeps).  NaN is a value of its own.  Arithmetic is exact decimal   *)
(* arithmetic: binary floating-point representation error is not modelled. *)
(***************************************************************************)
EXTENDS Integers, Sequences, FiniteSets, TLC

\* ------------------------------------------------------------------ bounds

\* The clock runs over a * CACHE_TTL_MS + b milliseconds, a <= MaxPeriods, b <= MaxMillis.
MaxPeriods == 2
MaxMillis == 1
\* Number of invocations the model follows (one after the other under Spec).
NumProcs == 2

\* --------------------------------------------------------- JavaScript values

\* Values are tagged records, so that values of different kinds can be compared.
\* undefined: a property that is not there
Undefined == [t |-> "undefined"]
\* null
Null == [t |-> "null"]
\* NaN
NaN == [t |-> "NaN"]
\* a finite number
Num(v) == [t |-> "number", v |-> v]
\* an array
Arr(items) == [t |-> "array", items |-> items]

IsNum(x) == x.t = "number"
IsArr(x) == x.t = "array"

Min(a, b) == IF a <= b THEN a ELSE b
\* Math.max of two numbers
Max2(a, b) == IF a >= b THEN a ELSE b

\* ------------------------------------------------------------------ strings

\* String.prototype.slice(from) / slice(from, to) with 0-based indices
Slice(s, from, to) == SubSeq(s, from + 1, Min(to, Len(s)))

\* String.prototype.startsWith
StartsWith(s, prefix) ==
    /\ Len(prefix) <= Len(s)
    /\ SubSeq(s, 1, Len(prefix)) = prefix

\* String.prototype.includes
Includes(s, q) ==
    \E i \in 1..(Len(s) + 1) : i + Len(q) - 1 <= Len(s) /\ SubSeq(s, i, i + Len(q) - 1) = q

UpperChars == "ABCDEFGHIJKLMNOPQRSTUVWXYZ"
LowerChars == "abcdefghijklmnopqrstuvwxyz"

\* the one-character string at position i of s
CharAt(s, i) == SubSeq(s, i, i)

RECURSIVE IndexFrom(_, _, _)
\* first position at or behind i of the one-character string c in s, 0 when absent
IndexFrom(s, c, i) ==
    IF i > Len(s) THEN 0
    ELSE IF CharAt(s, i) = c THEN i
    ELSE IndexFrom(s, c, i + 1)

IndexOfChar(s, c) == IndexFrom(s, c, 1)

LowerChar(c) ==
    IF IndexOfChar(UpperChars, c) > 0 THEN CharAt(LowerChars, IndexOfChar(UpperChars, c)) ELSE c

RECURSIVE ToLowerFrom(_, _)
ToLowerFrom(s, i) ==
    IF i > Len(s) THEN "" ELSE LowerChar(CharAt(s, i)) \o ToLowerFrom(s, i + 1)

\* String.prototype.toLowerCase
ToLowerCase(s) == ToLowerFrom(s, 1)

\* modelId.split("/")[0]
SplitFirst(s) ==
    IF IndexOfChar(s, "/") = 0 THEN s ELSE SubSeq(s, 1, IndexOfChar(s, "/") - 1)

RECURSIVE LastIndexFrom(_, _, _)
\* last position at or before i of the one-character string c in s, 0 when absent
LastIndexFrom(s, c, i) ==
    IF i < 1 THEN 0
    ELSE IF CharAt(s, i) = c THEN i
    ELSE LastIndexFrom(s, c, i - 1)

\* modelId.split("/").pop()
SplitPop(s) == SubSeq(s, LastIndexFrom(s, "/", Len(s)) + 1, Len(s))

\* Collation order of String.prototype.localeCompare in the default (root) locale:
\* punctuation before digits before letters, letters alphabetically whatever their
\* case, and at equal letters the lower-case form first.
CollationChars == " _-.:/0123456789abcdefghijklmnopqrstuvwxyz"

PrimaryKey(c) == IndexOfChar(CollationChars, LowerChar(c))

RECURSIVE ComparePrimary(_, _, _)
\* the letters of a and b from position i on, whatever their case
ComparePrimary(a, b, i) ==
    IF i > Len(a) /\ i > Len(b) THEN 0
    ELSE IF i > Len(a) THEN -1
    ELSE IF i > Len(b) THEN 1
    ELSE IF PrimaryKey(CharAt(a, i)) < PrimaryKey(CharAt(b, i)) THEN -1
    ELSE IF PrimaryKey(CharAt(a, i)) > PrimaryKey(CharAt(b, i)) THEN 1
    ELSE ComparePrimary(a, b, i + 1)

RECURSIVE CompareCase(_, _, _)
\* strings of equal letters: the first difference of case decides
CompareCase(a, b, i) ==
    IF i > Len(a) \/ i > Len(b) THEN 0
    ELSE IF CharAt(a, i) = CharAt(b, i) THEN CompareCase(a, b, i + 1)
    ELSE IF IndexOfChar(LowerChars, CharAt(a, i)) > 0 THEN -1
    ELSE 1

\* a.localeCompare(b): negative, zero or positive
LocaleCompare(a, b) ==
    IF a = b THEN 0
    ELSE IF ComparePrimary(a, b, 1) # 0 THEN ComparePrimary(a, b, 1)
    ELSE CompareCase(a, b, 1)

\* ------------------------------------------------------------------ numbers

\* a raw price field of the aggregator: a decimal string denoting v * 10^-12 USD
Dec(v) == [t |-> "decimal", v |-> v]
\* a raw price field that is a string but no number ("free", "n/a")
Text == [t |-> "text"]

\* x || "0" for a raw price field: undefined gives the string "0"
OrZero(x) == IF x = Undefined THEN Dec(0) ELSE x

\* parseFloat of a raw price string, in 10^-12 USD: NaN when it is no number
ParseFloat(x) == IF x.t = "decimal" THEN Num(x.v) ELSE NaN

\* parseFloat((x * 1_000_000).toFixed(4)): 10^-12 USD per token to 10^-4 USD per
\* million tokens, rounded half up; NaN stays NaN ("NaN" parses to NaN)
PerMillion(x) == IF IsNum(x) THEN Num((x.v + 50) \div 100) ELSE NaN

\* x === 0
IsZero(x) == IsNum(x) /\ x.v = 0

\* a - b of two numbers; NaN when either is NaN; null counts as 0
Minus(a, b) ==
    IF a = NaN \/ b = NaN THEN NaN
    ELSE Num((IF IsNum(a) THEN a.v ELSE 0) - (IF IsNum(b) THEN b.v ELSE 0))

\* ---------------------------------------------------------------- normalizer

PROVIDER_MAP ==
    "openai" :> "OpenAI" @@ "anthropic" :> "Anthropic" @@ "google" :> "Google" @@
    "deepseek" :> "DeepSeek" @@ "meta-llama" :> "Meta" @@ "x-ai" :> "xAI" @@
    "mistralai" :> "Mistral" @@ "cohere" :> "Cohere" @@ "qwen" :> "Qwen" @@
    "amazon" :> "Amazon" @@ "nvidia" :> "NVIDIA" @@ "microsoft" :> "Microsoft" @@
    "perplexity" :> "Perplexity" @@ "ai21" :> "AI21" @@ "together" :> "Together" @@
    "fireworks" :> "Fireworks" @@ "groq" :> "Groq"

extractProvider(modelId) ==
    IF SplitFirst(modelId) \in DOMAIN PROVIDER_MAP
    THEN PROVIDER_MAP[SplitFirst(modelId)]
    ELSE SplitFirst(modelId)

cleanName(name, provider) ==
    IF StartsWith(name, provider \o ": ")
    THEN Slice(name, Len(provider) + 2, Len(name))
    ELSE name

\* the optional price of lines 104-106: null unless the raw field is there
ExtraPrice(x) == IF x = Undefined THEN Null ELSE PerMillion(ParseFloat(x))

\* The raw records the aggregator returns in the model.  modalities and params
\* are the sets of strings of the raw lists, or Undefined.
Raw(id, name, prompt, completion, ctx, maxOut, inMods, outMods, params, cacheRead) ==
    [id |-> id, name |-> name, prompt |-> prompt, completion |-> completion,
     context_length |-> ctx, max_completion_tokens |-> maxOut,
     input_modalities |-> inMods, output_modalities |-> outMods,
     supported_parameters |-> params,
     input_cache_read |-> cacheRead, input_cache_write |-> Undefined,
     internal_reasoning |-> Undefined, description |-> "desc"]

Mods(set) == [t |-> "list", of |-> set]

RawGpt == Raw("openai/gpt-4.1", "OpenAI: GPT-4.1", Dec(2000000), Dec(8000000), 1047576, 32768,
              Mods({"text", "image"}), Mods({"text"}), Mods({"tools", "structured_outputs"}), Dec(500000))
\* the same id again, at another price
RawGptAgain == Raw("openai/gpt-4.1", "GPT-4.1 (dup)", Dec(3000000), Dec(9000000), 1000, 0,
              Undefined, Undefined, Undefined, Undefined)
\* same provider and same input price as RawGpt
RawO3 == Raw("openai/o3", "OpenAI: o3", Dec(2000000), Dec(40000000), 200000, 100000,
              Mods({"text"}), Mods({"text"}), Mods({"include_reasoning", "tools"}), Undefined)
RawClaude == Raw("anthropic/claude-haiku-3.5", "Anthropic: Claude Haiku 3.5", Dec(800000), Dec(4000000),
              200000, 8192, Mods({"text", "image"}), Mods({"text"}), Mods({"tools"}), Undefined)
\* a meta-routing product
RawRouter == Raw("openrouter/auto", "Auto Router", Dec(1000000), Dec(1000000), 2000000, 0,
              Undefined, Undefined, Undefined, Undefined)
\* a free model: both prices "0"
RawFree == Raw("qwen/qwen-free", "Qwen: Free", Dec(0), Dec(0), 32768, 0,
              Undefined, Undefined, Undefined, Undefined)
\* prices below the fourth decimal of a per-million price, completion absent
RawTiny == Raw("minimax/tiny", "", Dec(49), Undefined, 0, 0,
              Mods({"text", "audio"}), Undefined, Mods({"reasoning"}), Undefined)
\* a prompt price that is no number
RawText == Raw("openai/gpt-text", "OpenAI: GPT Text", Text, Dec(1000000), 128000, 0,
              Undefined, Undefined, Undefined, Undefined)


\* m.name || m.id.split("/").pop(): an absent name is the empty string here
NameOrSlug(m) == IF m.name = "" THEN SplitPop(m.id) ELSE m.name

ModList(x, default) == IF x = Undefined THEN default ELSE x.of

\* the object lines 86-108 push for the raw record m
NormalizeRecord(m) ==
    [id |-> m.id,
     provider |-> extractProvider(m.id),
     name |-> cleanName(NameOrSlug(m), extractProvider(m.id)),
     input |-> PerMillion(ParseFloat(OrZero(m.prompt))),
     output |-> PerMillion(ParseFloat(OrZero(m.completion))),
     context |-> m.context_length,
     maxOutput |-> m.max_completion_tokens,
     vision |-> "image" \in ModList(m.input_modalities, {"text"}),
     audio |-> "audio" \in ModList(m.input_modalities, {"text"}),
     video |-> "video" \in ModList(m.input_modalities, {"text"}),
     imageOut |-> "image" \in ModList(m.output_modalities, {"text"}),
     tools |-> "tools" \in ModList(m.supported_parameters, {}),
     reasoning |-> \/ "reasoning" \in ModList(m.supported_parameters, {})
                   \/ "include_reasoning" \in ModList(m.supported_parameters, {}),
     structuredOutput |-> "structured_outputs" \in ModList(m.supported_parameters, {}),
     cacheRead |-> ExtraPrice(m.input_cache_read),
     cacheWrite |-> ExtraPrice(m.input_cache_write),
     thinkingCost |-> ExtraPrice(m.internal_reasoning),
     description |-> Slice(m.description, 0, 200)]

\* the three continue statements of lines 75-78
Skipped(m, seen) ==
    \/ IsZero(ParseFloat(OrZero(m.prompt))) /\ IsZero(ParseFloat(OrZero(m.completion)))
    \/ m.id \in seen
    \/ StartsWith(m.id, "openrouter/")

RECURSIVE NormalizeLoop(_, _, _)
\* the loop of lines 72-109 over the rest of data, with models and seen so far
NormalizeLoop(data, models, seen) ==
    IF data = <<>> THEN models
    ELSE IF Skipped(Head(data), seen) THEN NormalizeLoop(Tail(data), models, seen)
    ELSE NormalizeLoop(Tail(data), Append(models, NormalizeRecord(Head(data))),
                       seen \cup {Head(data).id})

\* the comparator of line 111, as sort reads it: negative, zero or positive, a NaN
\* result counting as zero
SortCompare(a, b) ==
    IF LocaleCompare(a.provider, b.provider) # 0 THEN LocaleCompare(a.provider, b.provider)
    ELSE IF Minus(a.input, b.input) = NaN THEN 0
    ELSE Minus(a.input, b.input).v

\* the comparisons of the elements of list, as triples <<i, j, sign>>
Comparisons(list) ==
    {<<i, j, SortCompare(list[i], list[j])>> : i \in 1..Len(list), j \in 1..Len(list)}

\* the comparator is a consistent comparator for the elements of list
ConsistentComparator(list) ==
    \A cmp \in {Comparisons(list)} :
    \A x, y \in cmp :
        /\ x[1] = y[2] /\ x[2] = y[1] => ((x[3] < 0) <=> (y[3] > 0))
        /\ x[2] = y[1] =>
              \A z \in cmp :
                  z[1] = x[1] /\ z[2] = y[2] =>
                      /\ x[3] = 0 /\ y[3] = 0 => z[3] = 0
                      /\ x[3] < 0 /\ y[3] < 0 => z[3] < 0
                      /\ x[3] < 0 /\ y[3] = 0 => z[3] < 0
                      /\ x[3] = 0 /\ y[3] < 0 => z[3] < 0

RECURSIVE InsertSorted(_, _)
\* x goes behind every element that does not compare greater than it
InsertSorted(sorted, x) ==
    IF sorted = <<>> THEN <<x>>
    ELSE IF SortCompare(Head(sorted), x) > 0 THEN <<x>> \o sorted
    ELSE <<Head(sorted)>> \o InsertSorted(Tail(sorted), x)

RECURSIVE StableSort(_)
\* Array.prototype.sort with a consistent comparator: sorted, equal elements in
\* their original order
StableSort(list) ==
    IF list = <<>> THEN <<>>
    ELSE CHOOSE r \in {InsertSorted(front, list[Len(list)]) :
                          front \in {StableSort(SubSeq(list, 1, Len(list) - 1))}} : TRUE

Orderings(list) ==
    {[i \in 1..Len(list) |-> list[f[i]]] :
        f \in {g \in [1..Len(list) -> 1..Len(list)] : \A i, j \in 1..Len(list) : g[i] = g[j] => i = j}}

\* models.sort(...) of line 111: with an inconsistent comparator the order is
\* implementation-defined, any permutation
SortOutcomes(list) ==
    IF ConsistentComparator(list) THEN {StableSort(list)} ELSE Orderings(list)

\* what fetchLivePricing can return for the response body { data }
fetchLivePricing(data) ==
    UNION {{Arr(sorted) : sorted \in SortOutcomes(normalized)} :
              normalized \in {NormalizeLoop(data, <<>>, {})}}

\* the response bodies { data } of the model: no record; two models out of
\* order; a price that is no number beside prices that round to zero; a repeated
\* id, a meta-routing product and a free model among two models of one provider
ResponseBodies ==
    {<<>>,
     <<RawGpt, RawClaude>>,
     <<RawText, RawTiny>>,
     <<RawGpt, RawGptAgain, RawRouter, RawFree, RawO3>>}

\* fetchLivePricing over the response bodies of the model, tabulated once: the
\* pairs of a body and what fetchLivePricing can return for it
FetchTable == {<<data, fetchLivePricing(data)>> : data \in ResponseBodies}

Fetched(data) == (CHOOSE row \in FetchTable : row[1] = data)[2]

\* ------------------------------------------------------------ fallback data

Fallback(id, provider, name, input, output, context, maxOutput, vision, tools, reasoning, structuredOutput) ==
    [id |-> id, provider |-> provider, name |-> name, input |-> Num(input), output |-> Num(output),
     context |-> context, maxOutput |-> maxOutput, vision |-> vision, tools |-> tools,
     reasoning |-> reasoning, structuredOutput |-> structuredOutput]

FALLBACK_MODELS ==
    Arr(<<
      Fallback("openai/gpt-4.1", "OpenAI", "GPT-4.1", 20000, 80000, 1047576, 32768, TRUE, TRUE, FALSE, TRUE),
      Fallback("openai/gpt-4.1-mini", "OpenAI", "GPT-4.1 Mini", 4000, 16000, 1047576, 32768, TRUE, TRUE, FALSE, TRUE),
      Fallback("openai/gpt-4.1-nano", "OpenAI", "GPT-4.1 Nano", 1000, 4000, 1047576, 32768, TRUE, TRUE, FALSE, TRUE),
      Fallback("openai/o3", "OpenAI", "o3", 100000, 400000, 200000, 100000, TRUE, TRUE, TRUE, TRUE),
      Fallback("openai/o4-mini", "OpenAI", "o4-mini", 11000, 44000, 200000, 100000, TRUE, TRUE, TRUE, TRUE),
      Fallback("anthropic/claude-sonnet-4.5", "Anthropic", "Claude Sonnet 4.5", 30000, 150000, 1000000, 64000, TRUE, TRUE, TRUE, TRUE),
      Fallback("anthropic/claude-haiku-3.5", "Anthropic", "Claude Haiku 3.5", 8000, 40000, 200000, 8192, TRUE, TRUE, FALSE, FALSE),
      Fallback("google/gemini-2.5-pro", "Google", "Gemini 2.5 Pro", 12500, 100000, 1048576, 65536, TRUE, TRUE, TRUE, TRUE),
      Fallback("google/gemini-2.5-flash", "Google", "Gemini 2.5 Flash", 1500, 6000, 1048576, 65536, TRUE, TRUE, TRUE, TRUE),
      Fallback("deepseek/deepseek-chat", "DeepSeek", "DeepSeek V3", 2700, 11000, 131072, 8192, FALSE, TRUE, FALSE, FALSE),
      Fallback("deepseek/deepseek-r1", "DeepSeek", "DeepSeek R1", 5500, 21900, 163840, 8192, FALSE, FALSE, TRUE, FALSE),
      Fallback("x-ai/grok-3", "xAI", "Grok 3", 30000, 150000, 131072, 8192, FALSE, TRUE, FALSE, FALSE),
      Fallback("x-ai/grok-3-mini", "xAI", "Grok 3 Mini", 3000, 5000, 131072, 8192, FALSE, TRUE, TRUE, FALSE),
      Fallback("mistralai/mistral-large", "Mistral", "Mistral Large", 20000, 60000, 128000, 8192, FALSE, TRUE, FALSE, TRUE),
      Fallback("mistralai/mistral-small", "Mistral", "Mistral Small", 1000, 3000, 128000, 8192, FALSE, TRUE, FALSE, TRUE)
    >>)

\* ------------------------------------------------------------------- cache

\* a TTL of sixty hours, a digit too many
CACHE_TTL_MS_SixtyHours == 60 * 60 * 60 * 1000

\* line 14
CACHE_TTL_MS == 6 * 60 * 60 * 1000

\* The cache file.  Absent: no such file.  Unreadable: it exists and readFileSync
\* throws.  Garbage: its text is no JSON.  Json(v): its text is the JSON of v.
Absent == [kind |-> "absent"]
Unreadable == [kind |-> "unreadable"]
Garbage == [kind |-> "garbage"]
Json(v) == [kind |-> "json", value |-> v]

\* the object { timestamp, models }, either property possibly missing
Snapshot(timestamp, models) == [t |-> "object", timestamp |-> timestamp, models |-> models]

\* JSON.stringify then JSON.parse of a number: NaN has no JSON and is written null
JsonNumber(x) == IF x = NaN THEN Null ELSE x

\* JSON.stringify then JSON.parse of a model of fetchLivePricing
JsonModel(m) ==
    [m EXCEPT !.input = JsonNumber(@), !.output = JsonNumber(@), !.cacheRead = JsonNumber(@),
              !.cacheWrite = JsonNumber(@), !.thinkingCost = JsonNumber(@)]

\* JSON.stringify then JSON.parse of the models array
JsonModels(models) == Arr([i \in 1..Len(models.items) |-> JsonModel(models.items[i])])

\* an expiry that already strikes at exactly the TTL (>= for >)
Expired_AtTTL(clock, timestamp) == IsNum(timestamp) /\ clock - timestamp.v >= CACHE_TTL_MS

\* an expiry that never strikes
Expired_Never(clock, timestamp) == FALSE

\* Date.now() - raw.timestamp > CACHE_TTL_MS; a missing timestamp gives NaN, and
\* NaN > x is false
Expired(clock, timestamp) == IsNum(timestamp) /\ clock - timestamp.v > CACHE_TTL_MS

\* a value is truthy: arrays are, undefined and null are not
Truthy(v) == IsArr(v)

\* the try block of readCache (lines 18-21): threw, or the value returned
readCacheTry(f, clock) ==
    CASE f.kind = "absent" -> [threw |-> FALSE, value |-> Null]
      [] f.kind = "unreadable" -> [threw |-> TRUE, value |-> Undefined]
      [] f.kind = "garbage" -> [threw |-> TRUE, value |-> Undefined]
      [] f.kind = "json" /\ f.value = Null -> [threw |-> TRUE, value |-> Undefined]
      [] f.kind = "json" /\ f.value # Null ->
            IF Expired(clock, f.value.timestamp)
            THEN [threw |-> FALSE, value |-> Null]
            ELSE [threw |-> FALSE, value |-> f.value.models]

\* a readCache without its catch: what the try block throws reaches the caller
readCache_NoCatch(f, clock) ==
    IF readCacheTry(f, clock).threw
    THEN [raised |-> TRUE, value |-> Undefined]
    ELSE [raised |-> FALSE, value |-> readCacheTry(f, clock).value]

\* readCache (lines 16-25): what it returns; raised is whether it raises
readCache(f, clock) ==
    IF readCacheTry(f, clock).threw
    THEN [raised |-> FALSE, value |-> Null]
    ELSE [raised |-> FALSE, value |-> readCacheTry(f, clock).value]

\* a getModels that reads the cache whatever forceRefresh is
cachedOnEntry_IgnoresRefresh(refresh, f, clock) ==
    [read |-> TRUE, raised |-> readCache(f, clock).raised, value |-> readCache(f, clock).value]

\* lines 138-141: whether getModels calls readCache, whether that raises, and
\* the value of cached
cachedOnEntry(refresh, f, clock) ==
    IF refresh
    THEN [read |-> FALSE, raised |-> FALSE, value |-> Undefined]
    ELSE [read |-> TRUE, raised |-> readCache(f, clock).raised, value |-> readCache(f, clock).value]

\* the inner try block of getModels (lines 148-151): threw, returned a value, or
\* fell through (no file)
staleReadTry(f) ==
    CASE f.kind = "absent" -> [threw |-> FALSE, returned |-> FALSE, value |-> Undefined]
      [] f.kind = "unreadable" -> [threw |-> TRUE, returned |-> FALSE, value |-> Undefined]
      [] f.kind = "garbage" -> [threw |-> TRUE, returned |-> FALSE, value |-> Undefined]
      [] f.kind = "json" /\ f.value = Null -> [threw |-> TRUE, returned |-> FALSE, value |-> Undefined]
      [] f.kind = "json" /\ f.value # Null ->
            [threw |-> FALSE, returned |-> TRUE, value |-> f.value.models]

\* a getModels without the stale read: the fallback data whenever the fetch failed
staleOrFallback_NoStaleRead(f) == [models |-> FALLBACK_MODELS, source |-> "fallback"]

\* a getModels that returns an empty list where it has no snapshot
staleOrFallback_EmptyList(f) ==
    IF staleReadTry(f).returned
    THEN [models |-> staleReadTry(f).value, source |-> "stale-cache"]
    ELSE [models |-> Arr(<<>>), source |-> "fallback"]

\* lines 147-153: the result of getModels once the live fetch has failed
staleOrFallback(f) ==
    IF staleReadTry(f).returned
    THEN [models |-> staleReadTry(f).value, source |-> "stale-cache"]
    ELSE [models |-> FALLBACK_MODELS, source |-> "fallback"]

\* writeFileSync of line 30 when it succeeds
writtenFile(models, clock) == Json(Snapshot(Num(clock), JsonModels(models)))

\* -------------------------------------------------------------------- state

VARIABLES
    now,            \* Date.now(), in milliseconds since the model's start
    file,           \* CACHE_FILE
    lastWrite,      \* history: the models and time of the last writeFileSync that succeeded
    pc,             \* where each invocation stands
    forceRefresh,   \* the argument of getModels (args.refresh)
    fetchedModels,  \* getModels' local models (line 143)
    result,         \* what getModels returned
    netLog,         \* history: the outcome of each fetch the invocation attempted
    ioLog,          \* history: each access of the invocation to the cache file
    args,           \* the parsed arguments main reads after getModels
    exitCode,       \* the exit code of the process, undefined while it runs
    callOf,         \* one call of a function of the program taken alone: its name and arguments
    callResult      \* what that call returned, undefined before it has

vars == <<now, file, lastWrite, pc, forceRefresh, fetchedModels, result, netLog, ioLog, args, exitCode,
         callOf, callResult>>

Procs == 1..NumProcs

NoResult == [models |-> Undefined, source |-> "none"]
NoArgs == [mode |-> "none"]
NoCall == [fn |-> "none"]

\* the ways line 62-72 fail: fetch rejects, res.ok is false, the 8 s timeout aborts,
\* res.json() rejects, the body has no iterable data or a record without an id
FetchFailures == {"network", "status", "timeout", "body", "shape"}

\* the outcomes of writeCache: written; nothing written (mkdirSync or the open
\* fails); the file left truncated (the write fails midway)
WriteOutcomes == {"written", "failed", "truncated"}

\* cache files left by earlier runs or by anything else
InitLists == {Arr(<<>>), JsonModels(CHOOSE l \in fetchLivePricing(<<RawClaude>>) : TRUE)}
InitFiles ==
    {Absent, Unreadable, Garbage, Json(Null)}
    \cup {Json(Snapshot(ts, ms)) : ts \in {Undefined, Num(0)}, ms \in {Undefined} \cup InitLists}

Instants == {a * CACHE_TTL_MS + b : a \in 0..MaxPeriods, b \in 0..MaxMillis}

Init ==
    /\ now = 0
    /\ file \in InitFiles
    /\ lastWrite = Undefined
    /\ pc = [p \in Procs |-> "idle"]
    /\ forceRefresh = [p \in Procs |-> FALSE]
    /\ fetchedModels = [p \in Procs |-> Undefined]
    /\ result = [p \in Procs |-> NoResult]
    /\ netLog = [p \in Procs |-> <<>>]
    /\ ioLog = [p \in Procs |-> <<>>]
    /\ args = [p \in Procs |-> NoArgs]
    /\ exitCode = [p \in Procs |-> Undefined]
    /\ callOf = NoCall
    /\ callResult = Undefined

\* time passes
Tick(d) ==
    /\ now + d \in Instants
    /\ now' = now + d
    /\ UNCHANGED <<file, lastWrite, pc, forceRefresh, fetchedModels, result, netLog, ioLog, args, exitCode, callOf, callResult>>

\* a new process: main up to the call getModels(args.refresh) of line 510
Start(p, refresh) ==
    /\ pc[p] = "idle"
    /\ pc' = [pc EXCEPT ![p] = "getModels"]
    /\ forceRefresh' = [forceRefresh EXCEPT ![p] = refresh]
    /\ UNCHANGED <<now, file, lastWrite, fetchedModels, result, netLog, ioLog, args, exitCode, callOf, callResult>>

\* lines 506-507: --version and --help return before any model is resolved
EarlyReturn(p, mode) ==
    /\ pc[p] = "idle"
    /\ pc' = [pc EXCEPT ![p] = "exited"]
    /\ args' = [args EXCEPT ![p] = [mode |-> mode]]
    /\ exitCode' = [exitCode EXCEPT ![p] = Num(0)]
    /\ UNCHANGED <<now, file, lastWrite, forceRefresh, fetchedModels, result, netLog, ioLog, callOf, callResult>>

\* lines 138-141: the fresh read, unless forceRefresh
GetModelsEntry(p) ==
    /\ pc[p] = "getModels"
    /\ \E c \in {cachedOnEntry(forceRefresh[p], file, now)} :
          /\ ioLog' = IF c.read
                      THEN [ioLog EXCEPT ![p] = Append(@, [op |-> "read", file |-> file, at |-> now])]
                      ELSE ioLog
          /\ IF c.raised
             THEN pc' = [pc EXCEPT ![p] = "raised"] /\ UNCHANGED result
             ELSE IF Truthy(c.value)
             THEN /\ result' = [result EXCEPT ![p] = [models |-> c.value, source |-> "cache"]]
                  /\ pc' = [pc EXCEPT ![p] = "main"]
             ELSE /\ pc' = [pc EXCEPT ![p] = "fetch"]
                  /\ UNCHANGED result
    /\ UNCHANGED <<now, file, lastWrite, forceRefresh, fetchedModels, netLog, args, exitCode, callOf, callResult>>

\* line 143, the fetch answers with the body { data } and fetchLivePricing returns
FetchReturns(p, data) ==
    /\ pc[p] = "fetch"
    /\ \E fetched \in Fetched(data) : fetchedModels' = [fetchedModels EXCEPT ![p] = fetched]
    /\ netLog' = [netLog EXCEPT ![p] = Append(@, "ok")]
    /\ pc' = [pc EXCEPT ![p] = "writeCache"]
    /\ UNCHANGED <<now, file, lastWrite, forceRefresh, result, ioLog, args, exitCode, callOf, callResult>>

\* a getModels that fetches a second time when the first fetch has failed
FetchThrows_Retries(p, why) ==
    /\ pc[p] = "fetch"
    /\ why \in FetchFailures
    /\ netLog' = [netLog EXCEPT ![p] = Append(@, "failed")]
    /\ pc' = [pc EXCEPT ![p] = IF Len(netLog[p]) = 0 THEN "fetch" ELSE "staleRead"]
    /\ UNCHANGED <<now, file, lastWrite, forceRefresh, fetchedModels, result, ioLog, args, exitCode,
                   callOf, callResult>>

\* line 143, fetchLivePricing throws, caught at line 146
FetchThrows(p, why) ==
    /\ pc[p] = "fetch"
    /\ why \in FetchFailures
    /\ netLog' = [netLog EXCEPT ![p] = Append(@, "failed")]
    /\ pc' = [pc EXCEPT ![p] = "staleRead"]
    /\ UNCHANGED <<now, file, lastWrite, forceRefresh, fetchedModels, result, ioLog, args, exitCode, callOf, callResult>>

\* lines 144-145: writeCache(models), whatever becomes of it, and return live
WriteCacheAndReturn(p, outcome) ==
    /\ pc[p] = "writeCache"
    /\ file' = CASE outcome = "written" -> writtenFile(fetchedModels[p], now)
                 [] outcome = "failed" -> file
                 [] outcome = "truncated" -> Garbage
    /\ lastWrite' = CASE outcome = "written" -> [models |-> fetchedModels[p], at |-> now]
                      [] outcome = "failed" -> lastWrite
                      [] outcome = "truncated" -> Undefined
    /\ ioLog' = [ioLog EXCEPT ![p] = Append(@, [op |-> "write", file |-> file', at |-> now,
                                                 ok |-> outcome = "written"])]
    /\ result' = [result EXCEPT ![p] = [models |-> fetchedModels[p], source |-> "live"]]
    /\ pc' = [pc EXCEPT ![p] = "main"]
    /\ UNCHANGED <<now, forceRefresh, fetchedModels, netLog, args, exitCode, callOf, callResult>>

\* a getModels that writes the fallback data back to the cache file
StaleOrFallback_WritesBack(p) ==
    /\ pc[p] = "staleRead"
    /\ ioLog' = [ioLog EXCEPT ![p] = Append(@, [op |-> "stale", file |-> file, at |-> now])]
    /\ result' = [result EXCEPT ![p] = staleOrFallback(file)]
    /\ file' = IF staleOrFallback(file).source = "fallback"
               THEN writtenFile(FALLBACK_MODELS, now)
               ELSE file
    /\ pc' = [pc EXCEPT ![p] = "main"]
    /\ UNCHANGED <<now, lastWrite, forceRefresh, fetchedModels, netLog, args, exitCode, callOf, callResult>>

\* lines 147-153: the stale read, else the fallback data
StaleOrFallback(p) ==
    /\ pc[p] = "staleRead"
    /\ ioLog' = [ioLog EXCEPT ![p] = Append(@, [op |-> "stale", file |-> file, at |-> now])]
    /\ result' = [result EXCEPT ![p] = staleOrFallback(file)]
    /\ pc' = [pc EXCEPT ![p] = "main"]
    /\ UNCHANGED <<now, file, lastWrite, forceRefresh, fetchedModels, netLog, args, exitCode, callOf, callResult>>

\* --------------------------------------------------------------------- main

\* the parsed arguments main reads after getModels.  A list that was not given
\* (null) is the empty sequence, a string that was not given is "", a number
\* that was not given (null or NaN) is 0: parseArgs produces none of these
\* from an argument that was given, or main treats them alike.
Args(list, bestFor, detail, ms, ps, vision, tools, reasoning, minContext) ==
    [mode |-> "run", list |-> list, bestFor |-> bestFor, detail |-> detail, models |-> ms,
     providers |-> ps, vision |-> vision, tools |-> tools, reasoning |-> reasoning,
     minContext |-> minContext]

ArgChoices ==
    {Args(FALSE, FALSE, "", <<>>, <<>>, FALSE, FALSE, FALSE, 0),
     Args(TRUE, FALSE, "", <<>>, <<>>, FALSE, FALSE, FALSE, 0),
     Args(TRUE, FALSE, "", <<>>, <<"anthropic">>, FALSE, FALSE, FALSE, 0),
     Args(TRUE, FALSE, "", <<>>, <<"zzz">>, FALSE, FALSE, FALSE, 0),
     Args(TRUE, FALSE, "zzz", <<>>, <<>>, FALSE, FALSE, FALSE, 0),
     Args(FALSE, TRUE, "", <<>>, <<"zzz">>, FALSE, FALSE, FALSE, 0),
     Args(FALSE, FALSE, "claude", <<>>, <<>>, FALSE, FALSE, FALSE, 0),
     Args(FALSE, FALSE, "zzz", <<>>, <<>>, FALSE, FALSE, FALSE, 0),
     Args(FALSE, FALSE, "", <<"gpt", "claude">>, <<>>, FALSE, FALSE, FALSE, 0),
     Args(FALSE, FALSE, "", <<"zzz">>, <<>>, FALSE, FALSE, FALSE, 0),
     Args(FALSE, FALSE, "", <<>>, <<"zzz">>, FALSE, FALSE, FALSE, 0),
     Args(FALSE, FALSE, "", <<>>, <<"openai", "anthropic">>, TRUE, FALSE, FALSE, 0),
     Args(FALSE, FALSE, "", <<>>, <<>>, FALSE, TRUE, TRUE, 1000000)}

\* fs.some((f) => m.id.toLowerCase().includes(f) || m.name.toLowerCase().includes(f))
MatchesIdOrName(m, fs) ==
    \E i \in 1..Len(fs) : Includes(ToLowerCase(m.id), fs[i]) \/ Includes(ToLowerCase(m.name), fs[i])

\* ps.some((p) => m.provider.toLowerCase().includes(p))
MatchesProvider(m, ps) ==
    \E i \in 1..Len(ps) : Includes(ToLowerCase(m.provider), ps[i])

\* filters that widen: a model passes when it matches the ids or the providers
Passes_IdOrProvider(a, m) ==
    /\ (a.models # <<>> \/ a.providers # <<>>) =>
          \/ a.models # <<>> /\ MatchesIdOrName(m, a.models)
          \/ a.providers # <<>> /\ MatchesProvider(m, a.providers)
    /\ a.vision => m.vision
    /\ a.tools => m.tools
    /\ a.reasoning => m.reasoning
    /\ a.minContext # 0 => m.context >= a.minContext

\* the conjunction of the filters of lines 547-560 on the model m
Passes(a, m) ==
    /\ a.models # <<>> => MatchesIdOrName(m, a.models)
    /\ a.providers # <<>> => MatchesProvider(m, a.providers)
    /\ a.vision => m.vision
    /\ a.tools => m.tools
    /\ a.reasoning => m.reasoning
    /\ a.minContext # 0 => m.context >= a.minContext

RECURSIVE FilterFrom(_, _, _)
FilterFrom(a, all, i) ==
    IF i > Len(all) THEN <<>>
    ELSE IF Passes(a, all[i]) THEN <<all[i]>> \o FilterFrom(a, all, i + 1)
    ELSE FilterFrom(a, all, i + 1)

\* lines 545-560: the models main compares, in the order of all
filterModels(a, all) == FilterFrom(a, all, 1)

\* lines 512-641 with the arguments a and the resolved models all: the exit code.
\* With models that are no array every mode throws a TypeError (filter, find or
\* length of undefined), the promise of main() rejects and node exits with 1.
mainExit(a, all) ==
    IF ~IsArr(all) THEN 1
    ELSE IF a.list THEN 0
    ELSE IF a.bestFor THEN 0
    ELSE IF a.detail # ""
         THEN IF \E i \in 1..Len(all.items) : MatchesIdOrName(all.items[i], <<a.detail>>)
              THEN 0 ELSE 1
    ELSE IF Len(filterModels(a, all.items)) = 0 THEN 1
    ELSE 0

\* every value getModels can return as models in the model
ModelLists ==
    {Undefined, FALLBACK_MODELS} \cup InitLists
    \cup UNION {row[2] : row \in FetchTable}
    \cup UNION {{JsonModels(l) : l \in row[2]} : row \in FetchTable}

\* mainExit over the arguments and model lists of the model, tabulated once
ExitTable == {<<a, all, mainExit(a, all)>> : a \in ArgChoices, all \in ModelLists}

ExitOf(a, all) == (CHOOSE row \in ExitTable : row[1] = a /\ row[2] = all)[3]

\* lines 510-641: main once getModels has returned
Main(p, a) ==
    /\ pc[p] = "main"
    /\ args' = [args EXCEPT ![p] = a]
    /\ exitCode' = [exitCode EXCEPT ![p] = Num(ExitOf(a, result[p].models))]
    /\ pc' = [pc EXCEPT ![p] = "exited"]
    /\ UNCHANGED <<now, file, lastWrite, forceRefresh, fetchedModels, result, netLog, ioLog, callOf, callResult>>

\* the process is gone; the next invocation starts afresh
Terminate(p) ==
    /\ pc[p] \in {"exited", "raised"}
    /\ pc' = [pc EXCEPT ![p] = "idle"]
    /\ forceRefresh' = [forceRefresh EXCEPT ![p] = FALSE]
    /\ fetchedModels' = [fetchedModels EXCEPT ![p] = Undefined]
    /\ result' = [result EXCEPT ![p] = NoResult]
    /\ netLog' = [netLog EXCEPT ![p] = <<>>]
    /\ ioLog' = [ioLog EXCEPT ![p] = <<>>]
    /\ args' = [args EXCEPT ![p] = NoArgs]
    /\ exitCode' = [exitCode EXCEPT ![p] = Undefined]
    /\ UNCHANGED <<now, file, lastWrite, callOf, callResult>>

\* ------------------------------------------------------------ specification

TickSteps == {1, CACHE_TTL_MS}

\* one invocation at a time: no other process is running
Alone(p) == \A q \in Procs \ {p} : pc[q] = "idle"

Next ==
    \/ \E d \in TickSteps : Tick(d)
    \/ \E p \in Procs, refresh \in BOOLEAN : Alone(p) /\ Start(p, refresh)
    \/ \E p \in Procs, mode \in {"version", "help"} : Alone(p) /\ EarlyReturn(p, mode)
    \/ \E p \in Procs : GetModelsEntry(p)
    \/ \E p \in Procs, data \in ResponseBodies : FetchReturns(p, data)
    \/ \E p \in Procs, why \in FetchFailures : FetchThrows(p, why)
    \/ \E p \in Procs, outcome \in WriteOutcomes : WriteCacheAndReturn(p, outcome)
    \/ \E p \in Procs : StaleOrFallback(p)
    \/ \E p \in Procs, a \in ArgChoices : Main(p, a)
    \/ \E p \in Procs : Terminate(p)

\* sequential invocations
Spec == Init /\ [][Next]_vars

\* ---------------------------------------------------- concurrent processes

\* Several processes run at once against the same CACHE_FILE.  Each is its own
\* operating-system process, so the steps of one interleave with the steps of
\* the others at every file access; writeFileSync (line 30) opens the file
\* with truncation and then writes, and another process can read or write in
\* between.

\* the cache files the program itself leaves: none, a whole snapshot, or a
\* partially written one
ConcurrentInitFiles ==
    {Absent, Garbage} \cup {writtenFile(l, 0) : l \in fetchLivePricing(<<RawClaude>>)}

InitConcurrent ==
    /\ Init
    /\ file \in ConcurrentInitFiles

\* a writeCache without its catch: a failure to create the directory or to
\* open the file reaches the caller of getModels
WriteCacheOpen_Throws(p, opened) ==
    /\ pc[p] = "writeCache"
    /\ IF opened
       THEN /\ file' = Garbage
            /\ pc' = [pc EXCEPT ![p] = "writing"]
            /\ UNCHANGED <<result, ioLog>>
       ELSE /\ pc' = [pc EXCEPT ![p] = "raised"]
            /\ UNCHANGED <<file, result, ioLog>>
    /\ lastWrite' = IF opened THEN Undefined ELSE lastWrite
    /\ UNCHANGED <<now, forceRefresh, fetchedModels, netLog, args, exitCode, callOf, callResult>>

\* lines 28-30, up to the opening of CACHE_FILE inside writeFileSync: the file
\* is truncated; mkdirSync or the opening may throw, which line 31 swallows,
\* and getModels returns at line 145
WriteCacheOpen(p, opened) ==
    /\ pc[p] = "writeCache"
    /\ IF opened
       THEN /\ file' = Garbage
            /\ pc' = [pc EXCEPT ![p] = "writing"]
            /\ UNCHANGED <<result, ioLog>>
       ELSE /\ ioLog' = [ioLog EXCEPT ![p] = Append(@, [op |-> "write", file |-> file, at |-> now,
                                                        ok |-> FALSE])]
            /\ result' = [result EXCEPT ![p] = [models |-> fetchedModels[p], source |-> "live"]]
            /\ pc' = [pc EXCEPT ![p] = "main"]
            /\ UNCHANGED file
    /\ lastWrite' = IF opened THEN Undefined ELSE lastWrite
    /\ UNCHANGED <<now, forceRefresh, fetchedModels, netLog, args, exitCode, callOf, callResult>>

\* line 30, the rest of writeFileSync, and the return of line 145: the whole
\* snapshot is in the file ("written"); or the write threw part-way or mixed
\* with the bytes of another writer, and the file is unparseable
\* ("truncated"); or nothing was written and the file stays as it is, truncated
\* or with what another writer has put there since ("failed")
WriteCacheClose(p, outcome) ==
    /\ pc[p] = "writing"
    /\ file' = CASE outcome = "written" -> writtenFile(fetchedModels[p], now)
                 [] outcome = "failed" -> file
                 [] outcome = "truncated" -> Garbage
    /\ lastWrite' = CASE outcome = "written" -> [models |-> fetchedModels[p], at |-> now]
                      [] outcome = "failed" -> lastWrite
                      [] outcome = "truncated" -> Undefined
    /\ ioLog' = [ioLog EXCEPT ![p] = Append(@, [op |-> "write", file |-> file', at |-> now,
                                                 ok |-> outcome = "written"])]
    /\ result' = [result EXCEPT ![p] = [models |-> fetchedModels[p], source |-> "live"]]
    /\ pc' = [pc EXCEPT ![p] = "main"]
    /\ UNCHANGED <<now, forceRefresh, fetchedModels, netLog, args, exitCode, callOf, callResult>>

\* the response bodies of the concurrent processes
ConcurrentBodies == {<<RawGpt, RawClaude>>}

NextConcurrent ==
    \/ Tick(CACHE_TTL_MS)
    \/ \E p \in Procs, refresh \in BOOLEAN : Start(p, refresh)
    \/ \E p \in Procs : GetModelsEntry(p)
    \/ \E p \in Procs, data \in ConcurrentBodies : FetchReturns(p, data)
    \/ \E p \in Procs : FetchThrows(p, "network")
    \/ \E p \in Procs, opened \in BOOLEAN : WriteCacheOpen(p, opened)
    \/ \E p \in Procs, outcome \in WriteOutcomes : WriteCacheClose(p, outcome)
    \/ \E p \in Procs : StaleOrFallback(p)

\* the steps of getModels in the process p
GetModelsStep(p) ==
    \/ GetModelsEntry(p)
    \/ \E data \in ConcurrentBodies : FetchReturns(p, data)
    \/ FetchThrows(p, "network")
    \/ \E opened \in BOOLEAN : WriteCacheOpen(p, opened)
    \/ \E outcome \in WriteOutcomes : WriteCacheClose(p, outcome)
    \/ StaleOrFallback(p)

\* each process runs getModels once, all at the same time
SpecConcurrent == InitConcurrent /\ [][NextConcurrent]_vars

\* --------------------------------------------------- functions taken alone

\* no invocation runs: the state in which one function is called by itself
NoInvocation ==
    /\ now = 0
    /\ file = Absent
    /\ lastWrite = Undefined
    /\ pc = [p \in Procs |-> "idle"]
    /\ forceRefresh = [p \in Procs |-> FALSE]
    /\ fetchedModels = [p \in Procs |-> Undefined]
    /\ result = [p \in Procs |-> NoResult]
    /\ netLog = [p \in Procs |-> <<>>]
    /\ ioLog = [p \in Procs |-> <<>>]
    /\ args = [p \in Procs |-> NoArgs]
    /\ exitCode = [p \in Procs |-> Undefined]

NoInvocationStep ==
    UNCHANGED <<now, file, lastWrite, pc, forceRefresh, fetchedModels, result, netLog, ioLog, args,
                exitCode>>

\* the call returns
Returns(value) ==
    /\ callResult = Undefined
    /\ callResult' = value
    /\ UNCHANGED callOf
    /\ NoInvocationStep

\* ---------------------------------------------------------- cost calculator

\* token counts of a call: the small ones, the default 200 of line 541 and two
\* thousand (costs stay below 2^31)
MaxTokens == 4
TokenCounts == (0..MaxTokens) \cup {200, 2000}

\* (tokens / 1_000_000) * price with price in 10^-4 USD per million tokens: the
\* cost in 10^-10 USD.  NaN stays NaN, null counts as 0.
Times(tokens, price) ==
    IF price = NaN THEN NaN
    ELSE IF IsNum(price) THEN Num(tokens * price.v)
    ELSE Num(0)

\* a + b of two costs
Plus(a, b) == IF a = NaN \/ b = NaN THEN NaN ELSE Num(a.v + b.v)

\* a calculateCost that prices the output tokens at the input price
calculateCost_InputPriceTwice(model, inputTokens, outputTokens) ==
    [inputCost |-> Times(inputTokens, model.input),
     outputCost |-> Times(outputTokens, model.input),
     totalCost |-> Plus(Times(inputTokens, model.input), Times(outputTokens, model.input))]

\* lines 163-167
calculateCost(model, inputTokens, outputTokens) ==
    [inputCost |-> Times(inputTokens, model.input),
     outputCost |-> Times(outputTokens, model.output),
     totalCost |-> Plus(Times(inputTokens, model.input), Times(outputTokens, model.output))]

\* the models of the lists getModels returns whose two prices are numbers
PricedModels ==
    {l.items[i] : <<l, i>> \in {<<l, i>> \in
        UNION {{<<k, j>> : j \in 1..Len(k.items)} : k \in {k \in ModelLists : IsArr(k)}} :
            IsNum(l.items[i].input) /\ IsNum(l.items[i].output)}}

InitCost ==
    /\ NoInvocation
    /\ callOf \in {[fn |-> "calculateCost", model |-> m, inputTokens |-> x, outputTokens |-> y] :
                     m \in PricedModels, x \in TokenCounts, y \in TokenCounts}
    /\ callResult = Undefined

CalculateCost ==
    /\ callOf.fn = "calculateCost"
    /\ Returns(calculateCost(callOf.model, callOf.inputTokens, callOf.outputTokens))

NextCost == CalculateCost

\* calculateCost by itself, over the priced models and the token counts
SpecCost == InitCost /\ [][NextCost]_vars

\* ------------------------------------------------------------------ filters

\* the filters of a comparison: every combination of these
FilterArgs ==
    {Args(FALSE, FALSE, "", ms, ps, vision, tools, reasoning, minContext) :
        ms \in {<<>>, <<"gpt", "claude">>, <<"zzz">>},
        ps \in {<<>>, <<"openai", "anthropic">>, <<"zzz">>},
        vision \in BOOLEAN, tools \in BOOLEAN, reasoning \in BOOLEAN,
        minContext \in {0, 200000, 1000000}}

\* the lists of models getModels returns
ResolvedLists == {l \in ModelLists : IsArr(l)}

InitFilter ==
    /\ NoInvocation
    /\ callOf \in {[fn |-> "filterModels", args |-> a, all |-> l] :
                     a \in FilterArgs, l \in ResolvedLists}
    /\ callResult = Undefined

\* lines 545-560
FilterModels ==
    /\ callOf.fn = "filterModels"
    /\ Returns(Arr(filterModels(callOf.args, callOf.all.items)))

NextFilter == FilterModels

\* the filters of main by themselves
SpecFilter == InitFilter /\ [][NextFilter]_vars

\* ----------------------------------------------------------------- best for

\* the categories of lines 291-302: the flag a model must have ("" for none), the
\* context it must reach (0 for none) and what the category ranks by
Category(label, flag, minContext, rank) ==
    [label |-> label, flag |-> flag, minContext |-> minContext, rank |-> rank]

Categories ==
    <<Category("Cheapest overall", "", 0, "cost"),
      Category("Cheapest with vision", "vision", 0, "cost"),
      Category("Cheapest with tools", "tools", 0, "cost"),
      Category("Cheapest reasoning/CoT", "reasoning", 0, "cost"),
      Category("Cheapest JSON output", "structuredOutput", 0, "cost"),
      Category("Cheapest >=128K context", "", 128000, "cost"),
      Category("Cheapest >=1M context", "", 1000000, "cost"),
      Category("Cheapest with audio", "audio", 0, "cost"),
      Category("Biggest context window", "", 0, "context"),
      Category("Biggest max output", "", 0, "maxOutput")>>

\* m[flag] is truthy: a property that is not there is undefined
HasFlag(m, flag) == flag \in DOMAIN m /\ m[flag]

\* cat.filter(m)
Qualifies(cat, m) ==
    /\ cat.flag # "" => HasFlag(m, cat.flag)
    /\ cat.minContext > 0 => m.context >= cat.minContext

RECURSIVE QualifyingFrom(_, _, _)
QualifyingFrom(cat, list, i) ==
    IF i > Len(list) THEN <<>>
    ELSE IF Qualifies(cat, list[i]) THEN <<list[i]>> \o QualifyingFrom(cat, list, i + 1)
    ELSE QualifyingFrom(cat, list, i + 1)

\* a + b of two prices: null counts as 0, NaN gives NaN
PriceSum(a, b) ==
    IF a = NaN \/ b = NaN THEN NaN
    ELSE Num((IF IsNum(a) THEN a.v ELSE 0) + (IF IsNum(b) THEN b.v ELSE 0))

\* what the comparator of the category subtracts: lines 313, 299 and 300
RankKey(cat, m) ==
    CASE cat.rank = "cost" -> PriceSum(m.input, m.output)
      [] cat.rank = "context" -> Num(0 - m.context)
      [] cat.rank = "maxOutput" -> Num(0 - m.maxOutput)

\* a comparator that ranks the cost categories by the input price alone
BestForCompare_InputOnly(cat, a, b) ==
    IF cat.rank = "cost"
    THEN (IF Minus(a.input, b.input) = NaN THEN 0 ELSE Minus(a.input, b.input).v)
    ELSE (IF Minus(RankKey(cat, a), RankKey(cat, b)) = NaN THEN 0
          ELSE Minus(RankKey(cat, a), RankKey(cat, b)).v)

\* the comparator of the category as sort reads it, a NaN result counting as zero
BestForCompare(cat, a, b) ==
    IF Minus(RankKey(cat, a), RankKey(cat, b)) = NaN THEN 0
    ELSE Minus(RankKey(cat, a), RankKey(cat, b)).v

RECURSIVE BestForInsert(_, _, _)
BestForInsert(cat, sorted, x) ==
    IF sorted = <<>> THEN <<x>>
    ELSE IF BestForCompare(cat, Head(sorted), x) > 0 THEN <<x>> \o sorted
    ELSE <<Head(sorted)>> \o BestForInsert(cat, Tail(sorted), x)

RECURSIVE BestForSort(_, _)
\* filtered.sort(...) with a consistent comparator: stable
BestForSort(cat, list) ==
    IF list = <<>> THEN <<>>
    ELSE CHOOSE r \in {BestForInsert(cat, front, list[Len(list)]) :
                          front \in {BestForSort(cat, SubSeq(list, 1, Len(list) - 1))}} : TRUE

\* the comparator orders list consistently: no key is NaN, or NaN makes every
\* comparison zero
BestForConsistent(cat, list) ==
    \/ \A i \in 1..Len(list) : RankKey(cat, list[i]) # NaN
    \/ \A i, j \in 1..Len(list) : BestForCompare(cat, list[i], list[j]) = 0

\* lines 305-316 for one category: the model reported, null for the dash.  With
\* an inconsistent comparator the order sort leaves is implementation-defined.
bestForCategory(cat, list) ==
    LET filtered == QualifyingFrom(cat, list, 1) IN
    IF Len(filtered) = 0 THEN {Null}
    ELSE IF BestForConsistent(cat, filtered) THEN {Head(BestForSort(cat, filtered))}
    ELSE {Head(sorted) : sorted \in Orderings(filtered)}

\* the longest run of FALLBACK_MODELS a call is given
MaxRun == 4

\* the lists given to printBestFor: what getModels returns, and runs of the
\* fallback models
BestForLists ==
    ResolvedLists
    \cup {Arr(SubSeq(FALLBACK_MODELS.items, i, i + n - 1)) :
            <<i, n>> \in {<<i, n>> \in (1..Len(FALLBACK_MODELS.items)) \X (1..MaxRun) :
                            i + n - 1 <= Len(FALLBACK_MODELS.items)}}

InitBestFor ==
    /\ NoInvocation
    /\ callOf \in {[fn |-> "printBestFor", models |-> l] : l \in BestForLists}
    /\ callResult = Undefined

\* one turn of the loop of line 304: filtered and its sort are new arrays, models
\* is not assigned
PrintBestForCategory ==
    /\ callOf.fn = "printBestFor"
    /\ \E done \in {IF callResult = Undefined THEN <<>> ELSE callResult.lines} :
          /\ Len(done) < Len(Categories)
          /\ \E best \in bestForCategory(Categories[Len(done) + 1], callOf.models.items) :
                callResult' = [lines |-> Append(done, best), models |-> callOf.models]
    /\ UNCHANGED callOf
    /\ NoInvocationStep

NextBestFor == PrintBestForCategory

\* printBestFor by itself
SpecBestFor == InitBestFor /\ [][NextBestFor]_vars

\* ------------------------------------------------------------- token counts

\* !x for what parseInt left in args: null (not given), NaN and 0 are falsy
Falsy(x) == x = Null \/ x = NaN \/ x = Num(0)

\* a / b rounded up, for a >= 0 and b > 0
CeilDiv(a, b) == (a + b - 1) \div b

\* estimateTokens (lines 159-161) of a text of the given length
estimateTokens(length) == Max2(1, CeilDiv(length, 4))

\* lines 537-542: the token counts main computes the costs with.  promptLength is
\* the length of args.prompt, 0 when there is none (an empty prompt is falsy too).
tokenCounts(promptLength, inputTokens, outputTokens) ==
    LET estimated == IF promptLength > 0 /\ Falsy(inputTokens)
                     THEN Num(estimateTokens(promptLength)) ELSE inputTokens
        input == IF Falsy(estimated) THEN 200 ELSE estimated.v
        output == IF Falsy(outputTokens) THEN Max2(300, input * 2) ELSE outputTokens.v
    IN [inputTokens |-> input, outputTokens |-> output]

\* the longest prompt of a call, in characters
MaxPromptLen == 6

\* what --tokens and --output-tokens leave in args
TokenArgs == {Null, NaN} \cup {Num(n) : n \in (0..MaxTokens) \cup {149, 150, 151, 200}}

InitTokens ==
    /\ NoInvocation
    /\ callOf \in {[fn |-> "tokenCounts", promptLength |-> n, inputTokens |-> x, outputTokens |-> y] :
                     n \in 0..MaxPromptLen, x \in TokenArgs, y \in {Null, Num(0), Num(1), Num(500)}}
    /\ callResult = Undefined

TokenCountsOfMain ==
    /\ callOf.fn = "tokenCounts"
    /\ Returns(tokenCounts(callOf.promptLength, callOf.inputTokens, callOf.outputTokens))

NextTokens == TokenCountsOfMain

\* the token counts of main by themselves
SpecTokens == InitTokens /\ [][NextTokens]_vars

\* --------------------------------------------------------------- normalizer

\* the id of RawGpt again, first in its batch and free
RawGptFree == Raw("openai/gpt-4.1", "OpenAI: GPT-4.1 (free)", Dec(0), Dec(0), 1047576, 32768,
              Mods({"text"}), Mods({"text"}), Undefined, Undefined)

\* a prompt price that is no number beside a completion price of "0"
RawTextFree == Raw("openai/gpt-na", "OpenAI: GPT NA", Text, Dec(0), 128000, 0,
              Undefined, Undefined, Undefined, Undefined)

\* the provider of RawGpt at a lower price
RawGptMini == Raw("openai/gpt-4.1-mini", "OpenAI: GPT-4.1 Mini", Dec(400000), Dec(1600000), 1047576, 32768,
              Mods({"text", "image"}), Mods({"text"}), Mods({"tools"}), Undefined)

BatchRecords ==
    {RawGpt, RawGptAgain, RawGptFree, RawGptMini, RawO3, RawClaude, RawRouter, RawFree, RawTiny,
     RawText, RawTextFree}

MaxBatch == 3

RECURSIVE Batches(_)
\* the response bodies of at most n records
Batches(n) ==
    IF n = 0 THEN {<<>>}
    ELSE Batches(n - 1) \cup {Append(b, r) : b \in {c \in Batches(n - 1) : Len(c) = n - 1},
                                              r \in BatchRecords}

InitNormalize ==
    /\ NoInvocation
    /\ callOf \in {[fn |-> "fetchLivePricing", data |-> d] : d \in Batches(MaxBatch)}
    /\ callResult = Undefined

\* lines 69-112: the loop over data, the sort, and the return
FetchLivePricing ==
    /\ callOf.fn = "fetchLivePricing"
    /\ \E models \in fetchLivePricing(callOf.data) : Returns(models)

NextNormalize == FetchLivePricing

\* fetchLivePricing by itself, over the response bodies of at most MaxBatch records
SpecNormalize == InitNormalize /\ [][NextNormalize]_vars

\* ------------------------------------------------------------------- claims

Sources == {"live", "cache", "stale-cache", "fallback"}

\* getModels has returned to main in the invocation p
Returned(p) == pc[p] \in {"main", "exited"} /\ result[p] # NoResult

\* the text of the file f parses to an object
IsObject(f) == f.kind = "json" /\ f.value # Null

\* the file the access e saw is a snapshot, with a timestamp and a list of models
SawSnapshot(e) == IsObject(e.file) /\ IsNum(e.file.value.timestamp) /\ IsArr(e.file.value.models)

\* the age of that snapshot at the time of the access
AgeSeen(e) == e.at - e.file.value.timestamp.v

\* the accesses of the invocation p to the cache file that are of the kind op
Accesses(p, op) == {i \in DOMAIN ioLog[p] : ioLog[p][i].op = op}

\* C1: getModels never raises, and what it returns has one of the four sources
\* and a sequence of models, whatever the cache file, the fetch and the write do.
C1_ResolveReturnsModelList ==
    \A p \in Procs :
        /\ pc[p] # "raised"
        /\ Returned(p) => result[p].source \in Sources /\ IsArr(result[p].models)

\* C2: without forceRefresh, when the read of the cache finds a snapshot no older
\* than CACHE_TTL_MS, getModels returns exactly that snapshot's models with the
\* source "cache", and the invocation fetches nothing and writes nothing.
C2_FreshCacheIsReturned ==
    \A p \in Procs :
        (/\ ~forceRefresh[p]
         /\ ioLog[p] # <<>>
         /\ SawSnapshot(ioLog[p][1])
         /\ AgeSeen(ioLog[p][1]) <= CACHE_TTL_MS)
        => /\ Returned(p)
           /\ result[p] = [models |-> ioLog[p][1].file.value.models, source |-> "cache"]
           /\ netLog[p] = <<>>
           /\ Accesses(p, "write") = {}

\* a snapshot of exactly the TTL's age, with models, was read and returned
C2_Witness ==
    \E p \in Procs :
        /\ pc[p] = "main"
        /\ ~forceRefresh[p]
        /\ ioLog[p] # <<>>
        /\ SawSnapshot(ioLog[p][1])
        /\ AgeSeen(ioLog[p][1]) = CACHE_TTL_MS
        /\ result[p].source = "cache"
        /\ Len(result[p].models.items) > 0

\* C3: with forceRefresh, getModels has attempted a fetch before it returns
\* anything, and never returns the source "cache", fresh snapshot or not.
C3_ForceRefreshFetches ==
    \A p \in Procs :
        forceRefresh[p] =>
            /\ result[p].source # "cache"
            /\ Returned(p) => netLog[p] # <<>>
            /\ \A i \in Accesses(p, "write") \cup Accesses(p, "stale") : netLog[p] # <<>>

\* forceRefresh with a fresh snapshot in the file: the fetch was attempted, failed,
\* and the snapshot came back as stale-cache
C3_Witness ==
    \E p \in Procs :
        /\ forceRefresh[p]
        /\ pc[p] = "main"
        /\ Len(netLog[p]) = 1
        /\ Len(ioLog[p]) = 1
        /\ ioLog[p][1].op = "stale"
        /\ SawSnapshot(ioLog[p][1])
        /\ AgeSeen(ioLog[p][1]) <= CACHE_TTL_MS
        /\ result[p].source = "stale-cache"

\* the last access of the invocation p to the cache file
LastAccess(p) == ioLog[p][Len(ioLog[p])]

\* JSON.parse gave v: v.models where reading it does not throw
ModelsOf(v) == IF v = Null THEN Undefined ELSE v.models

\* C4: when the fetch succeeds getModels returns the normalized list with the
\* source "live" whatever becomes of the write, which never aborts it; and a
\* write that succeeds leaves in the file one snapshot whose models equal the
\* returned list and whose timestamp is the time of the write.
C4_LiveIsReturnedAndCached ==
    \A p \in Procs :
        /\ pc[p] # "raised"
        /\ (Returned(p) /\ netLog[p] = <<"ok">>) =>
              /\ result[p] = [models |-> fetchedModels[p], source |-> "live"]
              /\ \A i \in Accesses(p, "write") :
                    ioLog[p][i].ok =>
                        ioLog[p][i].file = Json(Snapshot(Num(ioLog[p][i].at), result[p].models))

\* C5 as stated: when the fetch fails and the cache file is parseable, getModels
\* returns that file's models with the source "stale-cache" whatever the
\* snapshot's age; and the stale read happens only after a fetch of the same
\* invocation has failed.
C5_StaleCacheWhenParseable ==
    \A p \in Procs :
        /\ (Returned(p) /\ netLog[p] = <<"failed">> /\ LastAccess(p).file.kind = "json") =>
              result[p] = [models |-> ModelsOf(LastAccess(p).file.value), source |-> "stale-cache"]
        /\ Accesses(p, "stale") # {} => netLog[p] = <<"failed">>

\* C5, amended: the same, for a cache file that parses to something other than
\* null (reading the models of null throws, and the fallback data is returned).
C5_StaleCacheWhenObject ==
    \A p \in Procs :
        /\ (Returned(p) /\ netLog[p] = <<"failed">> /\ IsObject(LastAccess(p).file)) =>
              result[p] = [models |-> LastAccess(p).file.value.models, source |-> "stale-cache"]
        /\ Accesses(p, "stale") # {} => netLog[p] = <<"failed">>

\* the fetch failed and a snapshot older than the TTL came back as stale-cache
C5_Witness ==
    \E p \in Procs :
        /\ pc[p] = "main"
        /\ netLog[p] = <<"failed">>
        /\ LastAccess(p).op = "stale"
        /\ SawSnapshot(LastAccess(p))
        /\ AgeSeen(LastAccess(p)) > CACHE_TTL_MS
        /\ result[p].source = "stale-cache"
        /\ Len(result[p].models.items) > 0

\* C6: when the fetch fails and there is no cache file, getModels returns
\* FALLBACK_MODELS with the source "fallback"; and it returns the source
\* "fallback" only when the fetch failed and neither the fresh read nor the
\* stale read could read a snapshot.
C6_FallbackAsLastResort ==
    \A p \in Procs :
        Returned(p) =>
            /\ (netLog[p] = <<"failed">> /\ LastAccess(p).file = Absent) =>
                  result[p] = [models |-> FALLBACK_MODELS, source |-> "fallback"]
            /\ result[p].source = "fallback" =>
                  /\ netLog[p] = <<"failed">>
                  /\ LastAccess(p).op = "stale"
                  /\ \A i \in DOMAIN ioLog[p] : ~IsObject(ioLog[p][i].file)

\* the fetch failed with no cache file, and the fifteen fallback models came back
C6_Witness ==
    \E p \in Procs :
        /\ pc[p] = "main"
        /\ netLog[p] = <<"failed">>
        /\ LastAccess(p).op = "stale"
        /\ LastAccess(p).file = Absent
        /\ result[p].source = "fallback"
        /\ Len(result[p].models.items) = 15

\* the file the access e saw is an object whose timestamp is a number
SawTimestamp(e) == IsObject(e.file) /\ IsNum(e.file.value.timestamp)

\* C7: readCache returns a snapshot's models only when now - timestamp is at most
\* CACHE_TTL_MS: after it has read a snapshot that is older, getModels goes on to
\* the fetch as if there were no file; and when the fetch has failed the stale
\* read still returns that snapshot.
C7_ExpiredForReadNotForStaleRead ==
    \A p \in Procs :
        /\ \A i \in Accesses(p, "read") :
              (SawTimestamp(ioLog[p][i]) /\ AgeSeen(ioLog[p][i]) > CACHE_TTL_MS) =>
                  /\ result[p].source # "cache"
                  /\ pc[p] = "fetch" \/ netLog[p] # <<>>
        /\ (Returned(p) /\ netLog[p] = <<"failed">> /\ SawSnapshot(LastAccess(p))
                /\ AgeSeen(LastAccess(p)) > CACHE_TTL_MS) =>
              result[p] = [models |-> LastAccess(p).file.value.models, source |-> "stale-cache"]

\* one invocation read a snapshot older than the TTL, took it for absent, failed
\* to fetch, and returned the same snapshot from the stale read
C7_Witness ==
    \E p \in Procs :
        /\ pc[p] = "main"
        /\ ~forceRefresh[p]
        /\ Len(ioLog[p]) = 2
        /\ ioLog[p][1].op = "read"
        /\ SawSnapshot(ioLog[p][1])
        /\ AgeSeen(ioLog[p][1]) > CACHE_TTL_MS
        /\ ioLog[p][2].op = "stale"
        /\ ioLog[p][2].file = ioLog[p][1].file
        /\ result[p] = [models |-> ioLog[p][1].file.value.models, source |-> "stale-cache"]

\* six hours in milliseconds, as the README promises them
SixHours == 6 * 60 * 60 * 1000

C9_CacheRoundTrip ==
    \A p \in Procs :
        (/\ ~forceRefresh[p]
         /\ ioLog[p] # <<>>
         /\ Accesses(p, "write") = {}
         /\ lastWrite # Undefined
         /\ ioLog[p][1].at - lastWrite.at <= CACHE_TTL_MS)
        => /\ Returned(p)
           /\ result[p] = [models |-> lastWrite.models, source |-> "cache"]
           /\ netLog[p] = <<>>

\* the arguments a ask for a filter or a lookup that matches none of the models
\* all, in the mode main runs them in
ZeroMatch(a, all) ==
    IF a.list
    THEN a.providers # <<>> /\ \A i \in 1..Len(all) : ~MatchesProvider(all[i], a.providers)
    ELSE IF a.bestFor THEN FALSE
    ELSE IF a.detail # "" THEN \A i \in 1..Len(all) : ~MatchesIdOrName(all[i], <<a.detail>>)
    ELSE filterModels(a, all) = <<>>

\* C10: the process exits non-zero exactly when a requested filter or detail
\* lookup matches zero models, in the comparison, with --detail and with --list
\* and a provider filter; in every other case it exits zero.  (Stated for the
\* invocations whose getModels returned a list of models.)
C10_ExitCodeTellsZeroMatch ==
    \A p \in Procs :
        pc[p] = "exited" =>
            IF args[p].mode \in {"version", "help"}
            THEN exitCode[p] = Num(0)
            ELSE IsArr(result[p].models) =>
                    (exitCode[p] # Num(0) <=> ZeroMatch(args[p], result[p].models.items))

\* C11: calculateCost returns totalCost = inputCost + outputCost, each part being
\* tokens / 1,000,000 x the price per million; the cost of no tokens is 0; and
\* the total for (x, y) is the total for (x, 0) plus the total for (0, y).
C11_CostIsLinear ==
    (callOf.fn = "calculateCost" /\ callResult # Undefined) =>
        /\ callResult.totalCost.v = callResult.inputCost.v + callResult.outputCost.v
        /\ callResult.inputCost.v = callOf.inputTokens * callOf.model.input.v
        /\ callResult.outputCost.v = callOf.outputTokens * callOf.model.output.v
        /\ (callOf.inputTokens = 0 /\ callOf.outputTokens = 0) => callResult.totalCost = Num(0)
        /\ callResult.totalCost.v =
              calculateCost(callOf.model, callOf.inputTokens, 0).totalCost.v
              + calculateCost(callOf.model, 0, callOf.outputTokens).totalCost.v

\* a call with input and output tokens and a cost that is not zero has returned
C11_Witness ==
    /\ callOf.fn = "calculateCost"
    /\ callResult # Undefined
    /\ callOf.inputTokens > 0
    /\ callOf.outputTokens > 0
    /\ callResult.inputCost.v > 0
    /\ callResult.outputCost.v > 0

\* the elements of the sequence q
Elements(q) == {q[i] : i \in 1..Len(q)}

\* some string of fs is a substring of s, whatever the case of s
AnyWithin(fs, s) == \E i \in 1..Len(fs) : Includes(ToLowerCase(s), fs[i])

\* the model m satisfies every predicate the arguments a supply
SatisfiesAll(a, m) ==
    /\ a.models # <<>> => AnyWithin(a.models, m.id) \/ AnyWithin(a.models, m.name)
    /\ a.providers # <<>> => AnyWithin(a.providers, m.provider)
    /\ a.vision => m.vision
    /\ a.tools => m.tools
    /\ a.reasoning => m.reasoning
    /\ a.minContext > 0 => m.context >= a.minContext

\* C12: the filtered set of a comparison is exactly the models of the resolved
\* list that satisfy every supplied predicate (ids or names, providers, vision,
\* tools, reasoning, minimum context), each of them once; so every supplied
\* predicate holds of every model left, and a list filtered by minContext holds
\* only models with context >= minContext.
C12_FiltersAreConjoined ==
    (callOf.fn = "filterModels" /\ callResult # Undefined) =>
        /\ Elements(callResult.items) =
              {m \in Elements(callOf.all.items) : SatisfiesAll(callOf.args, m)}
        /\ Len(callResult.items) = Cardinality(Elements(callResult.items))
        /\ \A m \in Elements(callResult.items) :
              /\ callOf.args.providers # <<>> => AnyWithin(callOf.args.providers, m.provider)
              /\ callOf.args.minContext > 0 => m.context >= callOf.args.minContext

\* two predicates were supplied, each of which alone leaves more models than both
C12_Witness ==
    /\ callOf.fn = "filterModels"
    /\ callResult # Undefined
    /\ callOf.args.providers # <<>>
    /\ callOf.args.minContext = 1000000
    /\ Len(callResult.items) > 0
    /\ \E m \in Elements(callOf.all.items) :
          AnyWithin(callOf.args.providers, m.provider) /\ m.context < 1000000
    /\ \E m \in Elements(callOf.all.items) :
          ~AnyWithin(callOf.args.providers, m.provider) /\ m.context >= 1000000

\* no price of the list is NaN: the list holds models
NoNaN(list) ==
    \A i \in 1..Len(list) : list[i].input # NaN /\ list[i].output # NaN

\* the qualifying filter of the k-th category, as the categories are described
QualifiesFor(k, m) ==
    CASE k \in {1, 9, 10} -> TRUE
      [] k = 2 -> HasFlag(m, "vision")
      [] k = 3 -> HasFlag(m, "tools")
      [] k = 4 -> HasFlag(m, "reasoning")
      [] k = 5 -> HasFlag(m, "structuredOutput")
      [] k = 6 -> m.context >= 128000
      [] k = 7 -> m.context >= 1000000
      [] k = 8 -> HasFlag(m, "audio")

\* input + output of the model m, null counting as 0
OneToOneCost(m) ==
    (IF IsNum(m.input) THEN m.input.v ELSE 0) + (IF IsNum(m.output) THEN m.output.v ELSE 0)

\* the model best is extremal among the models of Q for the k-th category
Extremal(k, best, Q) ==
    CASE k <= 8 -> \A m \in Q : OneToOneCost(best) <= OneToOneCost(m)
      [] k = 9 -> \A m \in Q : best.context >= m.context
      [] k = 10 -> \A m \in Q : best.maxOutput >= m.maxOutput

\* C13: for each best-for category the model reported qualifies for the category
\* and is extremal among the qualifying models of the whole list (least input +
\* output, or greatest context, or greatest maxOutput); a category nothing
\* qualifies for reports no model; and the list is left as it was.
C13_BestForIsExtremal ==
    (callOf.fn = "printBestFor" /\ callResult # Undefined /\ NoNaN(callOf.models.items)) =>
        /\ callResult.models = callOf.models
        /\ \A k \in 1..Len(callResult.lines) :
              \A Q \in {{m \in Elements(callOf.models.items) : QualifiesFor(k, m)}} :
                  IF Q = {}
                  THEN callResult.lines[k] = Null
                  ELSE callResult.lines[k] \in Q /\ Extremal(k, callResult.lines[k], Q)

\* all ten categories reported on a list whose cheapest model is not its first,
\* whose biggest context is another model, and where nothing qualifies for audio
C13_Witness ==
    /\ callOf.fn = "printBestFor"
    /\ callResult # Undefined
    /\ NoNaN(callOf.models.items)
    /\ Len(callResult.lines) = Len(Categories)
    /\ Len(callOf.models.items) >= 3
    /\ callResult.lines[1] # callOf.models.items[1]
    /\ callResult.lines[9] # callResult.lines[1]
    /\ callResult.lines[8] = Null
    /\ callResult.lines[7] # Null
    /\ callResult.lines[7] # callResult.lines[1]

\* C14: when --output-tokens is not given, the output token count the costs are
\* computed with is twice the input token count, whatever the input token count.
C14_DefaultOutputIsTwiceInput ==
    (callOf.fn = "tokenCounts" /\ callResult # Undefined /\ callOf.outputTokens = Null) =>
        callResult.outputTokens = 2 * callResult.inputTokens

\* the accesses of the invocation p that read the text of the cache file
\* (readFileSync of lines 19 and 149; with no file only existsSync is called)
FileReads(p) ==
    {i \in DOMAIN ioLog[p] : ioLog[p][i].op \in {"read", "stale"} /\ ioLog[p][i].file # Absent}

\* C15 as stated: an invocation attempts at most one fetch, reads the cache file
\* at most once and writes it at most once.
C15_OneFetchOneReadOneWrite ==
    \A p \in Procs :
        /\ Len(netLog[p]) <= 1
        /\ Cardinality(FileReads(p)) <= 1
        /\ Cardinality(Accesses(p, "write")) <= 1

\* C15, amended: at most one fetch and at most one write; at most one fresh read
\* and at most one stale read, the two together only in an invocation without
\* forceRefresh whose fetch failed; and no stale read in an invocation that
\* writes.
C15_OneFetchOneWriteTwoReads ==
    \A p \in Procs :
        /\ Len(netLog[p]) <= 1
        /\ Cardinality(Accesses(p, "write")) <= 1
        /\ Cardinality(Accesses(p, "read")) <= 1
        /\ Cardinality(Accesses(p, "stale")) <= 1
        /\ Cardinality(FileReads(p)) = 2 => ~forceRefresh[p] /\ netLog[p] = <<"failed">>
        /\ Accesses(p, "stale") # {} => Accesses(p, "write") = {}

\* an invocation has read the text of the cache file twice
C15_Witness ==
    \E p \in Procs :
        /\ pc[p] = "main"
        /\ Cardinality(FileReads(p)) = 2
        /\ Len(netLog[p]) = 1
        /\ result[p].source = "stale-cache"

\* the accesses of the invocation p that look for the cache file
Lookups(p) == Accesses(p, "read") \cup Accesses(p, "stale")

\* what getModels returns from the fetch alone: the fetched list, else the
\* fallback data
WithoutCache(p) ==
    IF netLog[p] = <<"ok">>
    THEN [models |-> fetchedModels[p], source |-> "live"]
    ELSE [models |-> FALLBACK_MODELS, source |-> "fallback"]

\* C16: with an unparseable cache file getModels returns the same models and the
\* same source as with no cache file, whatever forceRefresh and the fetch do:
\* in both cases it goes on to the fetch and returns what follows from the
\* fetch alone, and neither readCache nor the stale read raises.
C16_CorruptionIsAbsence ==
    \A p \in Procs :
        /\ pc[p] # "raised"
        /\ \A kind \in {Absent, Garbage} :
              (\A i \in Lookups(p) : ioLog[p][i].file = kind) =>
                  /\ result[p].source \notin {"cache", "stale-cache"}
                  /\ Returned(p) => netLog[p] # <<>> /\ result[p] = WithoutCache(p)

\* an unparseable file was read, the fetch failed, the stale read found the file
\* unparseable again, and the fallback data came back
C16_Witness ==
    \E p \in Procs :
        /\ pc[p] = "main"
        /\ ~forceRefresh[p]
        /\ Len(ioLog[p]) = 2
        /\ ioLog[p][1] = [op |-> "read", file |-> Garbage, at |-> ioLog[p][1].at]
        /\ ioLog[p][2].op = "stale"
        /\ ioLog[p][2].file = Garbage
        /\ result[p] = [models |-> FALLBACK_MODELS, source |-> "fallback"]

\* getModels returns in this step, in the invocation p
ReturnsNow(p) == result[p] = NoResult /\ result'[p] # NoResult

\* the step is the writeCache of an invocation whose fetch succeeded
WritesNow(p) == pc[p] = "writeCache" /\ netLog[p] = <<"ok">> /\ pc'[p] = "main"

\* the file changes only in the writeCache of an invocation whose fetch
\* succeeded, and a return with source cache, stale-cache or fallback leaves it
\* as it was
FileFrame ==
    /\ file' # file => \E p \in Procs : WritesNow(p)
    /\ \A p \in Procs :
          ReturnsNow(p) /\ result'[p].source \in {"cache", "stale-cache", "fallback"} =>
              /\ file' = file
              /\ Accesses(p, "write") = {}
              /\ ioLog'[p][Len(ioLog'[p])].op # "write"

\* C17 as stated: the file changes only in the writeCache of an invocation whose
\* fetch succeeded, every such invocation leaves the whole new snapshot in the
\* file, and a return with source cache, stale-cache or fallback leaves the file
\* unchanged.
C17_EverySuccessfulFetchOverwrites ==
    [][/\ FileFrame
       /\ \A p \in Procs :
             ReturnsNow(p) /\ result'[p].source = "live" =>
                 file' = writtenFile(fetchedModels[p], now)]_vars

\* C17: the file changes only in the writeCache of an invocation whose fetch
\* succeeded; every such invocation attempts the write once, a write that
\* succeeds leaves the whole new snapshot (the time of the write and the fetched
\* list) in the file, a write that fails is swallowed and leaves the file as it
\* was or unparseable; a return with source cache, stale-cache or fallback
\* writes nothing and leaves the file unchanged.
C17_OnlySuccessfulFetchWrites ==
    [][/\ FileFrame
       /\ \A p \in Procs :
             ReturnsNow(p) /\ result'[p].source = "live" =>
                 /\ WritesNow(p)
                 /\ ioLog'[p][Len(ioLog'[p])].op = "write"
                 /\ IF ioLog'[p][Len(ioLog'[p])].ok
                    THEN file' = writtenFile(fetchedModels[p], now)
                    ELSE file' \in {file, Garbage}]_vars

\* a live result came back from an invocation that found a snapshot with other
\* content, and the file now holds the whole new snapshot
C17_Witness ==
    \E p \in Procs :
        /\ pc[p] = "main"
        /\ result[p].source = "live"
        /\ Len(ioLog[p]) = 2
        /\ ioLog[p][1].op = "read"
        /\ IsObject(ioLog[p][1].file)
        /\ ioLog[p][2].op = "write"
        /\ ioLog[p][2].ok
        /\ file = writtenFile(fetchedModels[p], ioLog[p][2].at)
        /\ file # ioLog[p][1].file

\* the fresh read of the invocation p found an unparseable file
ReadUnparseable(p) ==
    /\ Accesses(p, "read") # {}
    /\ \A i \in Accesses(p, "read") : ioLog[p][i].file = Garbage

\* C18: with processes running at once against the same cache file, whose
\* writes interleave, are lost or leave the file unparseable, no invocation
\* raises, none waits for another (its next step can always be taken), each
\* one that has returned holds a list of models and one of the four sources, and an invocation whose read found an unparseable file took
\* nothing from the cache and went on to the fetch.
C18_ConcurrentInvocationsReturn ==
    \A p \in Procs :
        /\ pc[p] # "raised"
        /\ pc[p] \in {"idle", "getModels", "fetch", "writeCache", "writing", "staleRead", "main"}
        /\ pc[p] = "main" <=> Returned(p)
        /\ pc[p] \notin {"idle", "main"} => ENABLED GetModelsStep(p)
        /\ Returned(p) => result[p].source \in Sources /\ IsArr(result[p].models)
        /\ ReadUnparseable(p) =>
              /\ result[p].source # "cache"
              /\ pc[p] = "fetch" \/ netLog[p] # <<>>

\* one process found a snapshot and is in the middle of its write; another
\* read the truncated file meanwhile, fetched, and has returned live data
C18_Witness ==
    \E p, q \in Procs :
        /\ p # q
        /\ pc[q] = "writing"
        /\ Accesses(q, "read") # {}
        /\ \A i \in Accesses(q, "read") : IsObject(ioLog[q][i].file)
        /\ ReadUnparseable(p)
        /\ pc[p] = "main"
        /\ result[p].source = "live"
        /\ IsArr(result[p].models)

\* the first record of data, by input order, with the id
FirstWithId(data, id) == data[CHOOSE i \in DOMAIN data : data[i].id = id /\ \A j \in 1..(i - 1) : data[j].id # id]

\* C19 as stated: of the raw records of a batch that share an id only the first
\* by input order survives, so every normalized model comes from the first
\* record with its id and no two normalized models have the same id.
C19_FirstOfEachIdSurvives ==
    callOf.fn = "fetchLivePricing" /\ callResult # Undefined =>
        /\ \A i \in DOMAIN callResult.items :
              callResult.items[i] = NormalizeRecord(FirstWithId(callOf.data, callResult.items[i].id))
        /\ \A i, j \in DOMAIN callResult.items :
              callResult.items[i].id = callResult.items[j].id => i = j

\* x counted as a price: what is no number counts as 0
PriceOrZero(x) == IF IsNum(x) THEN x.v ELSE 0

\* C20 as stated: no normalized model has both per-million prices, rounded to four
\* decimals and with an absent or unparseable price counted as 0, equal to zero.
C20_NoModelIsFreeBothWays ==
    callOf.fn = "fetchLivePricing" /\ callResult # Undefined =>
        \A i \in DOMAIN callResult.items :
            ~(PriceOrZero(callResult.items[i].input) = 0 /\ PriceOrZero(callResult.items[i].output) = 0)

\* the place of the model with the id in the list, 0 when it is not there
PlaceOf(list, id) ==
    IF \E i \in DOMAIN list : list[i].id = id
    THEN CHOOSE i \in DOMAIN list : list[i].id = id
    ELSE 0

\* C21 as stated: the list a fetch returns is ordered by provider ascending, then
\* by input price ascending, and two models with the same provider and the same
\* input price are in the order in which the response body supplied them.
C21_SortedByProviderThenInputStable ==
    callOf.fn = "fetchLivePricing" /\ callResult # Undefined =>
        \A i, j \in DOMAIN callResult.items :
            i < j =>
                \E a \in {callResult.items[i]}, b \in {callResult.items[j]} :
                    /\ LocaleCompare(a.provider, b.provider) <= 0
                    /\ a.provider = b.provider /\ IsNum(a.input) /\ IsNum(b.input) =>
                          /\ a.input.v <= b.input.v
                          /\ a.input.v = b.input.v =>
                                PlaceOf(NormalizeLoop(callOf.data, <<>>, {}), a.id)
                                    < PlaceOf(NormalizeLoop(callOf.data, <<>>, {}), b.id)

====
